---------------------------- MODULE Spec2Model ----------------------------
(***************************************************************************)
(* Model of the url-crawler crawl engine: the Store (data_store.rs), the   *)
(* URLFrontier (url_frontier.rs), the worker loop run_task (task.rs) and   *)
(* the coordinator execute (main.rs).                                      *)
(*                                                                         *)
(* Four specifications share the variables:                               *)
(*   Spec          a whole crawl: execute spawns workers_n run_task loops  *)
(*   LiveSpec      Spec with the scheduler's fairness                      *)
(*   StoreSpec     any sequence of calls on one Store                      *)
(*   FrontierSpec  any sequence of calls on one URLFrontier                *)
(***************************************************************************)
EXTENDS Integers, Sequences, FiniteSets, TLC

VARIABLES
    data,               \* Store.data: HashMap<String, DataStoreEntry>
    queue,              \* URLFrontier.queue: SegQueue<String>
    delay_s,            \* URLFrontier.delay_s: Option<u64>
    frontier_lock,      \* holder of the url_frontier RwLock (0: free)
    store_lock,         \* holder of the data_store RwLock (0: free)
    pc,                 \* each worker's position in run_task
    current_url,        \* run_task's current_url, an Option
    urls_found,         \* run_task's urls_found still to be processed
    is_initial_crawl,   \* run_task's is_initial_crawl
    site,               \* what the Fetcher returns for each page
    args_url,           \* Args.url, the seed
    workers_n,          \* Args.workers_n
    spawned,            \* workers execute has spawned so far
    returned,           \* execute has returned Ok(data_store)
    log,                \* history: the Frontier, Store and Fetcher calls made
    ret,                \* the last call on the interface and what it returned
    sleeps              \* history: how many times dequeue has slept

vars == << data, queue, delay_s, frontier_lock, store_lock, pc, current_url,
           urls_found, is_initial_crawl, site, args_url, workers_n, spawned, returned,
           log, ret, sleeps >>

(***************************************************************************)
(* Bounds.                                                                 *)
(***************************************************************************)
MaxWorkers == 3         \* the larger of the two pool sizes tried
MaxSiteLinks == 2       \* anchors on all the pages of a generated site together
MaxCalls == 4           \* StoreSpec: add and visited calls made on one Store
MaxOps == 5             \* FrontierSpec: calls made on one Frontier

(***************************************************************************)
(* Option<T>: None is the empty sequence, Some(x) the one-element one.     *)
(***************************************************************************)
None == << >>
Some(x) == << x >>
IsSome(o) == o # None
Unwrap(o) == o[1]

(***************************************************************************)
(* URLs are kept in parts, so that resolving and filtering work on the     *)
(* parts as link.rs does.  Hrefs are what the Parser yields.               *)
(***************************************************************************)
Url(s, h, p) == [scheme |-> s, host |-> h, path |-> p]

main_url == Url("http", "localhost", "")
about_url == Url("http", "localhost", "/about")
contact_url == Url("http", "localhost", "/contact")
google_url == Url("http", "google.com", "")

\* A seed that has neither scheme nor host.
malformed_url == Url("", "", "not a url")

Urls == {main_url, about_url, contact_url, google_url}
Pages == {main_url, about_url, contact_url}

AbsHref(u) == [kind |-> "absolute", scheme |-> u.scheme, host |-> u.host, path |-> u.path]
RelHref(p) == [kind |-> "relative", scheme |-> "", host |-> "", path |-> p]
SchemeRelHref(h, p) == [kind |-> "scheme-relative", scheme |-> "", host |-> h, path |-> p]

Hrefs == {AbsHref(about_url), RelHref("/contact"), SchemeRelHref("google.com", "")}

(***************************************************************************)
(* link.rs: url_parts, process_url, filter_url.                            *)
(***************************************************************************)
\* The scheme and host of the seed, as a Result.
url_parts(seed) ==
    IF seed.scheme = "" \/ seed.host = ""
    THEN [ok |-> FALSE, scheme |-> "", host |-> ""]
    ELSE [ok |-> TRUE, scheme |-> seed.scheme, host |-> seed.host]

\* An href found on the page current turned into an absolute URL.
process_url(href, current) ==
    CASE href.kind = "absolute" -> Url(href.scheme, href.host, href.path)
      [] href.kind = "relative" -> Url(current.scheme, current.host, href.path)
      [] href.kind = "scheme-relative" -> Url(current.scheme, href.host, href.path)

\* Some(url) when url has the seed's host, None otherwise.
filter_url(url, parts) ==
    IF parts.ok /\ url.host = parts.host THEN Some(url) ELSE None

(***************************************************************************)
(* parser.rs and fetch.rs: the body of a page is kept as the sequence of   *)
(* the hrefs of its anchors, in document order.                            *)
(***************************************************************************)
all_links(content) == content

Ok(content) == [ok |-> TRUE, content |-> content]
Err == [ok |-> FALSE, content |-> << >>]

client_get(s, url) == IF url \in DOMAIN s THEN s[url] ELSE Err

(***************************************************************************)
(* data_store.rs: Store.                                                   *)
(***************************************************************************)
DataStoreEntry(v, found) == [visited |-> v, urls_found |-> found]

Store_new == << >>

\* HashMap::insert: the entry of key is set, whatever it was.
insert(d, key, entry) == (key :> entry) @@ d

\* Mutant of push: the value goes to the front of the list.
push_front(d, key, value) == [d EXCEPT ![key].urls_found = << value >> \o @]

push(d, key, value) == [d EXCEPT ![key].urls_found = Append(@, value)]

\* Mutant of add: the early return is missing, so a fresh record is always
\* inserted.
add_no_return(d, key, value) ==
    LET fresh == insert(d, key, DataStoreEntry(FALSE, << >>))
    IN  IF IsSome(value) THEN push(fresh, key, Unwrap(value)) ELSE fresh

add(d, key, value) ==
    IF key \in DOMAIN d /\ IsSome(value)
    THEN push(d, key, Unwrap(value))
    ELSE LET fresh == insert(d, key, DataStoreEntry(FALSE, << >>))
         IN  IF IsSome(value) THEN push(fresh, key, Unwrap(value)) ELSE fresh

exists(d, key) == key \in DOMAIN d

get(d, key) == IF key \in DOMAIN d THEN Some(d[key]) ELSE None

\* Mutant of visited: an absent key gets a visited record.
visited_upsert(d, key) ==
    IF key \in DOMAIN d
    THEN [d EXCEPT ![key].visited = TRUE]
    ELSE (key :> [visited |-> TRUE, urls_found |-> << >>]) @@ d

visited(d, key) ==
    IF key \in DOMAIN d THEN [d EXCEPT ![key].visited = TRUE] ELSE d

has_visited(d, key) == IF key \in DOMAIN d THEN d[key].visited ELSE FALSE

(***************************************************************************)
(* url_frontier.rs: URLFrontier and URLFrontierBuilder.                    *)
(***************************************************************************)
\* Mutant of enqueue: a value pushed on a queue that is not empty is lost.
enqueue_one_slot(q, value) == IF q = << >> THEN << value >> ELSE q

\* SegQueue::push and SegQueue::pop: the value popped, and what is left.
enqueue(q, value) == Append(q, value)

\* Mutant of pop: the newest value is returned.
pop_newest(q) == IF q = << >> THEN None ELSE Some(q[Len(q)])

pop(q) == IF q = << >> THEN None ELSE Some(Head(q))

rest(q) == IF q = << >> THEN q ELSE Tail(q)

URLFrontierBuilder_new == [queue |-> << >>, delay_s |-> None]

Builder_value(b, value) == [b EXCEPT !.queue = Append(@, value)]

Builder_delay_s(b, d) == IF d > 0 THEN [b EXCEPT !.delay_s = Some(d)] ELSE b

build(b) == [queue |-> b.queue, delay_s |-> b.delay_s]

(***************************************************************************)
(* The history of calls: one entry per Frontier, Store or Fetcher call.    *)
(***************************************************************************)
Call(op, key, value) == [op |-> op, key |-> key, value |-> value]

NoCall == [op |-> "none", key |-> None, value |-> None, out |-> None]

\* Mutant of dequeue_calls: no sleep when the queue is empty.
dequeue_calls_awake_on_empty(delay, q) ==
    (IF IsSome(delay) /\ q # << >> THEN << Call("sleep", None, delay) >> ELSE << >>)
    \o << Call("dequeue", pop(q), None) >>

\* URLFrontier::dequeue: the sleep when a delay is configured, then the pop.
dequeue_calls(delay, q) ==
    (IF IsSome(delay) THEN << Call("sleep", None, delay) >> ELSE << >>)
    \o << Call("dequeue", pop(q), None) >>

(***************************************************************************)
(* Sites: what the Fetcher returns for each page, a transport error or a   *)
(* body; all the bodies of a site hold at most MaxSiteLinks anchors.  The  *)
(* site the tests serve is one more.                                       *)
(***************************************************************************)
SeqsUpTo(S, n) == UNION {[1..k -> S] : k \in 0..n}

Results == {Err} \cup {Ok(b) : b \in SeqsUpTo(Hrefs, MaxSiteLinks)}

TotalLinks(s) ==
    Len(s[main_url].content) + Len(s[about_url].content) + Len(s[contact_url].content)

\* The site of the tests: make_hrefs and make_anchors on the seed's page,
\* empty bodies for /about and /contact.
make_hrefs == << AbsHref(about_url), AbsHref(contact_url), AbsHref(google_url) >>

test_site ==
    (main_url :> Ok(make_hrefs)) @@ (about_url :> Ok(<< >>)) @@ (contact_url :> Ok(<< >>))

\* A site whose pages link to themselves and back to pages crawled before.
cycle_site ==
    (main_url :> Ok(<< AbsHref(about_url) >>))
    @@ (about_url :> Ok(<< AbsHref(main_url), RelHref("/contact") >>))
    @@ (contact_url :> Ok(<< AbsHref(about_url), RelHref("/contact") >>))

Sites == {s \in [Pages -> Results] : TotalLinks(s) <= MaxSiteLinks} \cup {test_site, cycle_site}

Workers == 1..MaxWorkers

(***************************************************************************)
(* main.rs: main builds the Frontier holding the seed and the empty Store; *)
(* execute then spawns the workers.                                        *)
(***************************************************************************)
cli_url == args_url
cli_delay == 0

main_frontier == build(Builder_delay_s(Builder_value(URLFrontierBuilder_new, cli_url), cli_delay))

original_url_parts == url_parts(cli_url)

\* Mutant of in_scope: every resolved link is taken as in scope.
in_scope_all(url) == Some(url)

\* run_task's use of the scope filter on a resolved link.
in_scope(url) == filter_url(url, original_url_parts)

\* Mutant of process_link: a link in scope is put on the queue without
\* asking the Store whether it is visited.
process_link_unguarded(d, q, cur, href) ==
    LET url == process_url(href, cur)
        added == add(d, cur, Some(url))
        kept == in_scope(url)
        calls == << Call("add", Some(cur), Some(url)) >>
    IN  IF IsSome(kept)
        THEN [data |-> added, queue |-> enqueue(q, Unwrap(kept)),
              calls |-> calls \o << Call("enqueue", kept, None) >>]
        ELSE [data |-> added, queue |-> q, calls |-> calls]

\* Mutant of process_link: the link found gets a record of its own,
\* add(url, None), besides being recorded on the page.
process_link_registers(d, q, cur, href) ==
    LET url == process_url(href, cur)
        added == add(add(d, cur, Some(url)), url, None)
        kept == in_scope(url)
        calls == << Call("add", Some(cur), Some(url)), Call("add", Some(url), None) >>
    IN  IF IsSome(kept) /\ ~has_visited(added, Unwrap(kept))
        THEN [data |-> added, queue |-> enqueue(q, Unwrap(kept)),
              calls |-> calls \o << Call("has_visited", kept, None),
                                    Call("enqueue", kept, None) >>]
        ELSE [data |-> added, queue |-> q, calls |-> calls]

\* The body of run_task's loop over urls_found for one href of the page cur:
\* the Store and the queue afterwards, and the calls made.
process_link(d, q, cur, href) ==
    LET url == process_url(href, cur)
        added == add(d, cur, Some(url))
        kept == in_scope(url)
        calls == << Call("add", Some(cur), Some(url)) >>
    IN  IF IsSome(kept)
        THEN IF ~has_visited(added, Unwrap(kept))
             THEN [data |-> added, queue |-> enqueue(q, Unwrap(kept)),
                   calls |-> calls \o << Call("has_visited", kept, None),
                                         Call("enqueue", kept, None) >>]
             ELSE [data |-> added, queue |-> q,
                   calls |-> calls \o << Call("has_visited", kept, None) >>]
        ELSE [data |-> added, queue |-> q, calls |-> calls]

Init ==
    /\ \/ args_url = main_url /\ site \in Sites
       \/ args_url = malformed_url /\ site = test_site
    /\ data = Store_new
    /\ queue = main_frontier.queue
    /\ delay_s = main_frontier.delay_s
    /\ frontier_lock = 0
    /\ store_lock = 0
    /\ pc = [w \in Workers |-> "unspawned"]
    /\ current_url = [w \in Workers |-> None]
    /\ urls_found = [w \in Workers |-> << >>]
    /\ is_initial_crawl = [w \in Workers |-> TRUE]
    /\ workers_n \in {1, MaxWorkers}
    /\ spawned = 0
    /\ returned = FALSE
    /\ log = << >>
    /\ ret = NoCall
    /\ sleeps = 0

\* execute: tokio::spawn of the next worker.
Spawn ==
    /\ spawned < workers_n
    /\ spawned' = spawned + 1
    /\ pc' = [pc EXCEPT ![spawned + 1] = "lock_frontier"]
    /\ UNCHANGED << data, queue, delay_s, frontier_lock, store_lock, current_url,
                    urls_found, is_initial_crawl, site, args_url, workers_n, returned,
                    log, ret, sleeps >>

\* Mutant of Join: Ok(data_store) is returned once the workers are spawned,
\* without joining them.
Join_early ==
    /\ spawned = workers_n
    /\ ~returned
    /\ returned' = TRUE
    /\ UNCHANGED << data, queue, delay_s, frontier_lock, store_lock, pc,
                    current_url, urls_found, is_initial_crawl, site, args_url, workers_n,
                    spawned, log, ret, sleeps >>

\* execute: every spawned task has been joined; Ok(data_store) is returned.
Join ==
    /\ spawned = workers_n
    /\ ~returned
    /\ \A w \in 1..workers_n : pc[w] = "done"
    /\ returned' = TRUE
    /\ UNCHANGED << data, queue, delay_s, frontier_lock, store_lock, pc,
                    current_url, urls_found, is_initial_crawl, site, args_url, workers_n,
                    spawned, log, ret, sleeps >>

(***************************************************************************)
(* task.rs: run_task, one action per step of the loop.                     *)
(***************************************************************************)
\* Mutant of LockFrontier: the lock is taken without waiting for its holder
\* (read() for write()).
LockFrontier_shared(w) ==
    /\ pc[w] = "lock_frontier"
    /\ frontier_lock' = w
    /\ pc' = [pc EXCEPT ![w] = "dequeue"]
    /\ UNCHANGED << data, queue, delay_s, store_lock, current_url, urls_found,
                    is_initial_crawl, site, args_url, workers_n, spawned, returned, log,
                    ret, sleeps >>

\* url_frontier.write().await
LockFrontier(w) ==
    /\ pc[w] = "lock_frontier"
    /\ frontier_lock = 0
    /\ frontier_lock' = w
    /\ pc' = [pc EXCEPT ![w] = "dequeue"]
    /\ UNCHANGED << data, queue, delay_s, store_lock, current_url, urls_found,
                    is_initial_crawl, site, args_url, workers_n, spawned, returned, log,
                    ret, sleeps >>

\* Mutant of Dequeue: the Frontier's lock is given back right after the
\* dequeue, not at the end of the iteration.
Dequeue_unlocks(w) ==
    /\ pc[w] = "dequeue"
    /\ sleeps' = sleeps + Len(dequeue_calls(delay_s, queue)) - 1
    /\ queue' = rest(queue)
    /\ log' = log \o dequeue_calls(delay_s, queue)
    /\ current_url' = [current_url EXCEPT ![w] = pop(queue)]
    /\ pc' = [pc EXCEPT ![w] = IF IsSome(pop(queue)) THEN "check_visited" ELSE "done"]
    /\ frontier_lock' = 0
    /\ UNCHANGED << data, delay_s, store_lock, urls_found, is_initial_crawl,
                    site, args_url, workers_n, spawned, returned, ret >>

\* Mutant of Dequeue: the worker that finds the queue empty ends without
\* giving the Frontier's lock back.
Dequeue_keeps_lock(w) ==
    /\ pc[w] = "dequeue"
    /\ sleeps' = sleeps + Len(dequeue_calls(delay_s, queue)) - 1
    /\ queue' = rest(queue)
    /\ log' = log \o dequeue_calls(delay_s, queue)
    /\ current_url' = [current_url EXCEPT ![w] = pop(queue)]
    /\ pc' = [pc EXCEPT ![w] = IF IsSome(pop(queue)) THEN "check_visited" ELSE "done"]
    /\ UNCHANGED << data, delay_s, frontier_lock, store_lock, urls_found,
                    is_initial_crawl, site, args_url, workers_n, spawned, returned, ret >>

\* Mutant of Dequeue: a worker whose is_initial_crawl is still set does not
\* end on an empty queue but stays in the loop.
Dequeue_initial_stays(w) ==
    /\ pc[w] = "dequeue"
    /\ sleeps' = sleeps + Len(dequeue_calls(delay_s, queue)) - 1
    /\ queue' = rest(queue)
    /\ log' = log \o dequeue_calls(delay_s, queue)
    /\ current_url' = [current_url EXCEPT ![w] = pop(queue)]
    /\ IF IsSome(pop(queue))
       THEN /\ pc' = [pc EXCEPT ![w] = "check_visited"]
            /\ UNCHANGED frontier_lock
       ELSE /\ pc' = [pc EXCEPT ![w] = IF is_initial_crawl[w] THEN "lock_frontier" ELSE "done"]
            /\ frontier_lock' = 0
    /\ UNCHANGED << data, delay_s, store_lock, urls_found, is_initial_crawl,
                    site, args_url, workers_n, spawned, returned, ret >>

\* url_frontier_write.dequeue().await; None ends the worker.
Dequeue(w) ==
    /\ pc[w] = "dequeue"
    /\ sleeps' = sleeps + Len(dequeue_calls(delay_s, queue)) - 1
    /\ queue' = rest(queue)
    /\ log' = log \o dequeue_calls(delay_s, queue)
    /\ current_url' = [current_url EXCEPT ![w] = pop(queue)]
    /\ IF IsSome(pop(queue))
       THEN /\ pc' = [pc EXCEPT ![w] = "check_visited"]
            /\ UNCHANGED frontier_lock
       ELSE /\ pc' = [pc EXCEPT ![w] = "done"]
            /\ frontier_lock' = 0
    /\ UNCHANGED << data, delay_s, store_lock, urls_found, is_initial_crawl,
                    site, args_url, workers_n, spawned, returned, ret >>

\* Mutant of CheckVisited: the revisit guard is missing.
CheckVisited_skipped(w) ==
    /\ pc[w] = "check_visited"
    /\ store_lock = 0
    /\ log' = Append(log, Call("has_visited", current_url[w], None))
    /\ pc' = [pc EXCEPT ![w] = "fetch"]
    /\ UNCHANGED << data, queue, delay_s, frontier_lock, store_lock, current_url,
                    urls_found, is_initial_crawl, site, args_url, workers_n, spawned,
                    returned, ret, sleeps >>

\* Mutant of CheckVisited: a URL found visited ends the worker (return for
\* continue).
CheckVisited_revisit_ends(w) ==
    /\ pc[w] = "check_visited"
    /\ store_lock = 0
    /\ log' = Append(log, Call("has_visited", current_url[w], None))
    /\ pc' = [pc EXCEPT ![w] = IF has_visited(data, Unwrap(current_url[w]))
                                 THEN "done" ELSE "fetch"]
    /\ frontier_lock' = IF has_visited(data, Unwrap(current_url[w])) THEN 0 ELSE frontier_lock
    /\ UNCHANGED << data, queue, delay_s, store_lock, current_url, urls_found,
                    is_initial_crawl, site, args_url, workers_n, spawned, returned, ret,
                    sleeps >>

\* data_store.read().await and has_visited(&current_url).
CheckVisited(w) ==
    /\ pc[w] = "check_visited"
    /\ store_lock = 0
    /\ log' = Append(log, Call("has_visited", current_url[w], None))
    /\ IF has_visited(data, Unwrap(current_url[w]))
       THEN /\ pc' = [pc EXCEPT ![w] = "lock_frontier"]
            /\ frontier_lock' = 0
       ELSE /\ pc' = [pc EXCEPT ![w] = "fetch"]
            /\ UNCHANGED frontier_lock
    /\ UNCHANGED << data, queue, delay_s, store_lock, current_url, urls_found,
                    is_initial_crawl, site, args_url, workers_n, spawned, returned, ret,
                    sleeps >>

\* Mutant of Fetch: on a transport error the loop is re-entered with the
\* Frontier's guard still alive.
Fetch_fail_keeps_lock(w) ==
    /\ pc[w] = "fetch"
    /\ log' = Append(log, Call("get", current_url[w], None))
    /\ LET content == client_get(site, Unwrap(current_url[w]))
       IN  IF content.ok
           THEN /\ pc' = [pc EXCEPT ![w] = "record"]
                /\ urls_found' = [urls_found EXCEPT ![w] = all_links(content.content)]
           ELSE /\ pc' = [pc EXCEPT ![w] = "lock_frontier"]
                /\ UNCHANGED urls_found
    /\ UNCHANGED << data, queue, delay_s, frontier_lock, store_lock, current_url,
                    is_initial_crawl, site, args_url, workers_n, spawned,
                    returned, ret, sleeps >>

\* Mutant of Fetch: a transport error ends the worker (return for continue).
Fetch_fail_ends(w) ==
    /\ pc[w] = "fetch"
    /\ log' = Append(log, Call("get", current_url[w], None))
    /\ LET content == client_get(site, Unwrap(current_url[w]))
       IN  IF content.ok
           THEN /\ pc' = [pc EXCEPT ![w] = "record"]
                /\ urls_found' = [urls_found EXCEPT ![w] = all_links(content.content)]
                /\ UNCHANGED frontier_lock
           ELSE /\ pc' = [pc EXCEPT ![w] = "done"]
                /\ frontier_lock' = 0
                /\ UNCHANGED urls_found
    /\ UNCHANGED << data, queue, delay_s, store_lock, current_url,
                    is_initial_crawl, site, args_url, workers_n, spawned,
                    returned, ret, sleeps >>

\* client.get(&current_url).await
Fetch(w) ==
    /\ pc[w] = "fetch"
    /\ log' = Append(log, Call("get", current_url[w], None))
    /\ LET content == client_get(site, Unwrap(current_url[w]))
       IN  IF content.ok
           THEN /\ pc' = [pc EXCEPT ![w] = "record"]
                /\ urls_found' = [urls_found EXCEPT ![w] = all_links(content.content)]
                /\ UNCHANGED frontier_lock
           ELSE /\ pc' = [pc EXCEPT ![w] = "lock_frontier"]
                /\ frontier_lock' = 0
                /\ UNCHANGED urls_found
    /\ UNCHANGED << data, queue, delay_s, store_lock, current_url,
                    is_initial_crawl, site, args_url, workers_n, spawned, returned, ret,
                    sleeps >>

\* Mutant of Record: the record is added but not marked visited.
Record_add_only(w) ==
    /\ pc[w] = "record"
    /\ store_lock = 0
    /\ store_lock' = w
    /\ data' = add(data, Unwrap(current_url[w]), None)
    /\ log' = Append(log, Call("add", current_url[w], None))
    /\ pc' = [pc EXCEPT ![w] = "links"]
    /\ UNCHANGED << queue, delay_s, frontier_lock, current_url, urls_found,
                    is_initial_crawl, site, args_url, workers_n, spawned, returned, ret,
                    sleeps >>

\* Mutant of Record: visited(&current_url) is called before
\* add(current_url, None).
Record_visited_first(w) ==
    /\ pc[w] = "record"
    /\ store_lock = 0
    /\ store_lock' = w
    /\ data' = add(visited(data, Unwrap(current_url[w])), Unwrap(current_url[w]), None)
    /\ log' = log \o << Call("visited", current_url[w], None),
                        Call("add", current_url[w], None) >>
    /\ pc' = [pc EXCEPT ![w] = "links"]
    /\ UNCHANGED << queue, delay_s, frontier_lock, current_url, urls_found,
                    is_initial_crawl, site, args_url, workers_n, spawned, returned, ret,
                    sleeps >>

\* data_store.write().await, add(current_url, None), visited(&current_url).
Record(w) ==
    /\ pc[w] = "record"
    /\ store_lock = 0
    /\ store_lock' = w
    /\ data' = visited(add(data, Unwrap(current_url[w]), None), Unwrap(current_url[w]))
    /\ log' = log \o << Call("add", current_url[w], None),
                        Call("visited", current_url[w], None) >>
    /\ pc' = [pc EXCEPT ![w] = "links"]
    /\ UNCHANGED << queue, delay_s, frontier_lock, current_url, urls_found,
                    is_initial_crawl, site, args_url, workers_n, spawned, returned, ret,
                    sleeps >>

\* One turn of the loop over urls_found.
ProcessLink(w) ==
    /\ pc[w] = "links"
    /\ urls_found[w] # << >>
    /\ LET after == process_link(data, queue, Unwrap(current_url[w]), Head(urls_found[w]))
       IN  /\ data' = after.data
           /\ queue' = after.queue
           /\ log' = log \o after.calls
    /\ urls_found' = [urls_found EXCEPT ![w] = Tail(@)]
    /\ UNCHANGED << delay_s, frontier_lock, store_lock, pc, current_url,
                    is_initial_crawl, site, args_url, workers_n, spawned, returned, ret,
                    sleeps >>

\* Mutant of EndIteration: only the first iteration of a worker loops back,
\* a later one ends the worker.
EndIteration_quits(w) ==
    /\ pc[w] = "links"
    /\ urls_found[w] = << >>
    /\ is_initial_crawl' = [is_initial_crawl EXCEPT ![w] = FALSE]
    /\ store_lock' = 0
    /\ frontier_lock' = 0
    /\ current_url' = [current_url EXCEPT ![w] = None]
    /\ pc' = [pc EXCEPT ![w] = IF is_initial_crawl[w] THEN "lock_frontier" ELSE "done"]
    /\ UNCHANGED << data, queue, delay_s, urls_found, site, args_url, workers_n, spawned,
                    returned, log, ret, sleeps >>

\* The end of the loop body: both guards are dropped.
EndIteration(w) ==
    /\ pc[w] = "links"
    /\ urls_found[w] = << >>
    /\ is_initial_crawl' = [is_initial_crawl EXCEPT ![w] = FALSE]
    /\ store_lock' = 0
    /\ frontier_lock' = 0
    /\ current_url' = [current_url EXCEPT ![w] = None]
    /\ pc' = [pc EXCEPT ![w] = "lock_frontier"]
    /\ UNCHANGED << data, queue, delay_s, urls_found, site, args_url, workers_n, spawned,
                    returned, log, ret, sleeps >>

run_task(w) ==
    \/ LockFrontier(w)
    \/ Dequeue(w)
    \/ CheckVisited(w)
    \/ Fetch(w)
    \/ Record(w)
    \/ ProcessLink(w)
    \/ EndIteration(w)

Next ==
    \/ Spawn
    \/ Join
    \/ \E w \in Workers : run_task(w)

Spec == Init /\ [][Next]_vars

\* The runtime keeps polling tasks that can run: the crawl does not stop
\* while a step is possible.
LiveSpec == Spec /\ WF_vars(Next)

(***************************************************************************)
(* run_task run by one worker alone, as a function: the Store left when    *)
(* the queue q has been worked off on the site s.                          *)
(***************************************************************************)
RECURSIVE links_loop(_, _, _, _)
links_loop(d, q, cur, links) ==
    IF links = << >>
    THEN [data |-> d, queue |-> q]
    ELSE LET after == process_link(d, q, cur, Head(links))
         IN  links_loop(after.data, after.queue, cur, Tail(links))

RECURSIVE sequential(_, _, _)
sequential(s, q, d) ==
    IF pop(q) = None
    THEN d
    ELSE LET cur == Unwrap(pop(q))
             content == client_get(s, cur)
         IN  IF has_visited(d, cur) \/ ~content.ok
             THEN sequential(s, rest(q), d)
             ELSE LET after == links_loop(visited(add(d, cur, None), cur), rest(q),
                                          cur, all_links(content.content))
                  IN  sequential(s, after.queue, after.data)

(***************************************************************************)
(* FlagSpec: run_task called directly, as the test of task.rs calls it, on *)
(* a Frontier and a Store with some content and with either value of       *)
(* is_initial_crawl.  ret keeps the arguments of the call.                 *)
(***************************************************************************)
\* The calls of run_task's loop over urls_found.
RECURSIVE links_loop_calls(_, _, _, _)
links_loop_calls(d, q, cur, links) ==
    IF links = << >>
    THEN << >>
    ELSE LET after == process_link(d, q, cur, Head(links))
         IN  after.calls \o links_loop_calls(after.data, after.queue, cur, Tail(links))

\* The calls one worker makes from the queue q and the Store d on the site s
\* when started with is_initial_crawl = flag: the flag is cleared at the end
\* of the first successful iteration, and the loop is re-entered either way.
RECURSIVE run_task_calls(_, _, _, _)
run_task_calls(s, q, d, flag) ==
    IF pop(q) = None
    THEN << Call("dequeue", None, None) >>
    ELSE LET cur == Unwrap(pop(q))
             content == client_get(s, cur)
             seen == << Call("dequeue", Some(cur), None), Call("has_visited", Some(cur), None) >>
         IN  IF has_visited(d, cur)
             THEN seen \o run_task_calls(s, rest(q), d, flag)
             ELSE IF ~content.ok
             THEN seen \o << Call("get", Some(cur), None) >>
                       \o run_task_calls(s, rest(q), d, flag)
             ELSE LET marked == visited(add(d, cur, None), cur)
                      links == all_links(content.content)
                      after == links_loop(marked, rest(q), cur, links)
                  IN  seen \o << Call("get", Some(cur), None),
                                 Call("add", Some(cur), None),
                                 Call("visited", Some(cur), None) >>
                           \o links_loop_calls(marked, rest(q), cur, links)
                           \o run_task_calls(s, after.queue, after.data,
                                             IF flag THEN FALSE ELSE flag)

Frontiers == {<< >>, << main_url >>, << about_url, main_url >>, << about_url, about_url >>}

Stores == {Store_new, visited(add(Store_new, about_url, None), about_url)}

FlagInit ==
    /\ site \in Sites
    /\ args_url = main_url
    /\ data \in Stores
    /\ queue \in Frontiers
    /\ delay_s = None
    /\ frontier_lock = 0
    /\ store_lock = 0
    /\ pc = [w \in Workers |-> IF w = 1 THEN "lock_frontier" ELSE "unspawned"]
    /\ current_url = [w \in Workers |-> None]
    /\ urls_found = [w \in Workers |-> << >>]
    /\ \E flag \in BOOLEAN :
          /\ is_initial_crawl = [w \in Workers |-> flag]
          /\ ret = [op |-> "run_task", key |-> queue, value |-> data, out |-> flag]
    /\ workers_n = 1
    /\ spawned = 1
    /\ returned = FALSE
    /\ log = << >>
    /\ sleeps = 0

FlagNext == run_task(1)

FlagSpec == FlagInit /\ [][FlagNext]_vars

(***************************************************************************)
(* StoreSpec: any sequence of calls on one Store, as the tests of          *)
(* data_store.rs make them.  log keeps the add and visited calls, ret the  *)
(* last call and what it returned.                                         *)
(***************************************************************************)
Keys == {main_url, about_url}
Values == {about_url, google_url}

Returned(op, key, value, out) == [op |-> op, key |-> key, value |-> value, out |-> out]

crawl_vars == << queue, delay_s, frontier_lock, store_lock, pc, current_url,
                 urls_found, is_initial_crawl, site, args_url, workers_n, spawned,
                 returned, sleeps >>

StoreInit ==
    /\ data = Store_new
    /\ queue = << >>
    /\ delay_s = None
    /\ frontier_lock = 0
    /\ store_lock = 0
    /\ pc = [w \in Workers |-> "unspawned"]
    /\ current_url = [w \in Workers |-> None]
    /\ urls_found = [w \in Workers |-> << >>]
    /\ is_initial_crawl = [w \in Workers |-> TRUE]
    /\ site = test_site
    /\ args_url = main_url
    /\ workers_n = 0
    /\ spawned = 0
    /\ returned = FALSE
    /\ log = << >>
    /\ ret = NoCall
    /\ sleeps = 0

StoreAdd(key, value) ==
    /\ Len(log) < MaxCalls
    /\ data' = add(data, key, value)
    /\ log' = Append(log, Call("add", Some(key), value))
    /\ ret' = Returned("add", Some(key), value, None)
    /\ UNCHANGED crawl_vars

StoreVisited(key) ==
    /\ Len(log) < MaxCalls
    /\ data' = visited(data, key)
    /\ log' = Append(log, Call("visited", Some(key), None))
    /\ ret' = Returned("visited", Some(key), None, None)
    /\ UNCHANGED crawl_vars

StoreHasVisited(key) ==
    /\ ret' = Returned("has_visited", Some(key), None, Some(has_visited(data, key)))
    /\ UNCHANGED << data, log >>
    /\ UNCHANGED crawl_vars

StoreExists(key) ==
    /\ ret' = Returned("exists", Some(key), None, Some(exists(data, key)))
    /\ UNCHANGED << data, log >>
    /\ UNCHANGED crawl_vars

StoreGet(key) ==
    /\ ret' = Returned("get", Some(key), None, get(data, key))
    /\ UNCHANGED << data, log >>
    /\ UNCHANGED crawl_vars

StoreNext ==
    \/ \E key \in Keys, value \in {None} \cup {Some(v) : v \in Values} : StoreAdd(key, value)
    \/ \E key \in Keys : StoreVisited(key)
    \/ \E key \in Keys : StoreHasVisited(key)
    \/ \E key \in Keys : StoreExists(key)
    \/ \E key \in Keys : StoreGet(key)

StoreSpec == StoreInit /\ [][StoreNext]_vars

(***************************************************************************)
(* FrontierSpec: any sequence of enqueue and dequeue calls on one          *)
(* URLFrontier built by the builder, as the tests of url_frontier.rs make  *)
(* them.  log keeps the calls: the builder's value and delay_s, enqueue,   *)
(* dequeue (with what it returned) and the sleep inside dequeue.           *)
(***************************************************************************)
Delays == {0, 2}

Built(seed, d) ==
    LET valued == IF IsSome(seed)
                  THEN Builder_value(URLFrontierBuilder_new, Unwrap(seed))
                  ELSE URLFrontierBuilder_new
    IN  build(IF IsSome(d) THEN Builder_delay_s(valued, Unwrap(d)) ELSE valued)

store_vars == << data, frontier_lock, store_lock, pc, current_url, urls_found,
                 is_initial_crawl, site, args_url, workers_n, spawned, returned >>

FrontierInit ==
    /\ \E seed \in {None} \cup {Some(v) : v \in Values},
          d \in {None} \cup {Some(n) : n \in Delays} :
          /\ queue = Built(seed, d).queue
          /\ delay_s = Built(seed, d).delay_s
          /\ log = (IF IsSome(seed) THEN << Call("value", seed, None) >> ELSE << >>)
                   \o (IF IsSome(d) THEN << Call("delay_s", None, d) >> ELSE << >>)
    /\ data = Store_new
    /\ frontier_lock = 0
    /\ store_lock = 0
    /\ pc = [w \in Workers |-> "unspawned"]
    /\ current_url = [w \in Workers |-> None]
    /\ urls_found = [w \in Workers |-> << >>]
    /\ is_initial_crawl = [w \in Workers |-> TRUE]
    /\ site = test_site
    /\ args_url = main_url
    /\ workers_n = 0
    /\ spawned = 0
    /\ returned = FALSE
    /\ ret = NoCall
    /\ sleeps = 0

\* The enqueue and dequeue calls made so far.
Operations(l) == SelectSeq(l, LAMBDA c : c.op \in {"enqueue", "dequeue"})

FrontierEnqueue(value) ==
    /\ Len(Operations(log)) < MaxOps
    /\ queue' = enqueue(queue, value)
    /\ log' = Append(log, Call("enqueue", Some(value), None))
    /\ ret' = Returned("enqueue", Some(value), None, None)
    /\ UNCHANGED << delay_s, sleeps >>
    /\ UNCHANGED store_vars

FrontierDequeue ==
    /\ Len(Operations(log)) < MaxOps
    /\ sleeps' = sleeps + Len(dequeue_calls(delay_s, queue)) - 1
    /\ queue' = rest(queue)
    /\ log' = log \o dequeue_calls(delay_s, queue)
    /\ ret' = Returned("dequeue", None, None, pop(queue))
    /\ UNCHANGED delay_s
    /\ UNCHANGED store_vars

FrontierNext ==
    \/ \E value \in Values : FrontierEnqueue(value)
    \/ FrontierDequeue

FrontierSpec == FrontierInit /\ [][FrontierNext]_vars

(***************************************************************************)
(* Reading the history.                                                    *)
(***************************************************************************)
CallsOf(l, op, key) == SelectSeq(l, LAMBDA c : c.op = op /\ c.key = Some(key))

ValuesOf(calls) == [i \in 1..Len(calls) |-> Unwrap(calls[i].value)]

LastCall(l) == l[Len(l)]

\* The step just taken made the call op (of those log keeps).
Made(op) == Len(log') = Len(log) + 1 /\ LastCall(log').op = op

(***************************************************************************)
(* Claims on the Store (StoreSpec).                                        *)
(***************************************************************************)

\* C5: visited is monotonic at the Store interface: once has_visited(K) is
\* true, it is true after every later Store call.  (Stated as the claim
\* states it; Store::add(K, None) on a visited K breaks it.)
C5_VisitedMonotonic ==
    [][\A k \in Keys : has_visited(data, k) => has_visited(data', k)]_vars

\* C6: record lifecycle: once K has a record, every Store call leaves it
\* unchanged, appends exactly one element to its urls_found, or sets its
\* visited flag; it is never removed, replaced or truncated.  (Stated as
\* the claim states it; Store::add(K, None) on an existing K breaks it.)
C6_RecordLifecycle ==
    [][\A k \in DOMAIN data :
          /\ k \in DOMAIN data'
          /\ \/ data'[k] = data[k]
             \/ \E v \in Urls : data'[k] = [data[k] EXCEPT !.urls_found = Append(@, v)]
             \/ data'[k] = [data[k] EXCEPT !.visited = TRUE]]_vars

C7_Accumulated ==
    \A k \in Keys :
        LET adds == CallsOf(log, "add", k)
        IN  (adds # << >> /\ \A i \in 1..Len(adds) : IsSome(adds[i].value)) =>
               /\ exists(data, k)
               /\ data[k].urls_found = ValuesOf(adds)
               /\ (CallsOf(log, "visited", k) = << >> => ~data[k].visited)

C7_AddStep ==
    Made("add") =>
        LET k == Unwrap(LastCall(log').key)
            v == LastCall(log').value
        IN  /\ (~exists(data, k) /\ v = None) =>
                   /\ exists(data', k)
                   /\ data'[k] = DataStoreEntry(FALSE, << >>)
            /\ (exists(data, k) /\ IsSome(v)) =>
                   /\ DOMAIN data' = DOMAIN data
                   /\ data'[k].visited = data[k].visited
                   /\ data'[k].urls_found = Append(data[k].urls_found, Unwrap(v))
            /\ \A j \in Urls \ {k} :
                   /\ exists(data', j) = exists(data, j)
                   /\ exists(data, j) => data'[j] = data[j]

\* C7: discovery accumulation: from a Store without K, add(K, Some(v1)) ..
\* add(K, Some(vn)) yield urls_found = [v1 .. vn] in call order, duplicates
\* kept, visited = false; add(K, None) on an absent K yields an empty
\* unvisited record; add(K, Some(v)) on an existing K creates no record and
\* keeps its visited flag; no add changes the record of another key.
C7_DiscoveryAccumulation == []C7_Accumulated /\ [][C7_AddStep]_vars

\* The list [google, about, google] has been accumulated on an unvisited key.
C7_Witness ==
    /\ exists(data, about_url)
    /\ data[about_url] = DataStoreEntry(FALSE, << google_url, about_url, google_url >>)
    /\ Len(CallsOf(log, "add", about_url)) = 3
    /\ exists(data, main_url)

NeverAdded(l, k) == CallsOf(l, "add", k) = << >>

C8_Reads ==
    (ret.op \in {"has_visited", "exists", "get"} /\ NeverAdded(log, Unwrap(ret.key))) =>
        /\ ret.op = "has_visited" => ret.out = Some(FALSE)
        /\ ret.op = "exists" => ret.out = Some(FALSE)
        /\ ret.op = "get" => ret.out = None

C8_VisitedStep ==
    (Made("visited") /\ NeverAdded(log, Unwrap(LastCall(log').key))) =>
        /\ data' = data
        /\ ~exists(data', Unwrap(LastCall(log').key))

\* C8: absent-key safety: for a key never added, has_visited and exists
\* return false, get returns nothing, and visited leaves the whole Store
\* unchanged (no record is created).
C8_AbsentKeySafety == []C8_Reads /\ [][C8_VisitedStep]_vars

\* visited(K) was called on a key never added, and exists(K) then returned false.
C8_Witness ==
    /\ ret.op = "exists"
    /\ ret.out = Some(FALSE)
    /\ NeverAdded(log, Unwrap(ret.key))
    /\ CallsOf(log, "visited", Unwrap(ret.key)) # << >>
    /\ data # Store_new

(***************************************************************************)
(* Claims on the Frontier (FrontierSpec).                                  *)
(***************************************************************************)
Pushes(l) == SelectSeq(l, LAMBDA c : c.op \in {"value", "enqueue"})

Pops(l) == SelectSeq(l, LAMBDA c : c.op = "dequeue" /\ IsSome(c.key))

\* What a FIFO returns after the calls l: the oldest value not yet returned.
Oldest(l) ==
    IF Len(Pops(l)) < Len(Pushes(l)) THEN Pushes(l)[Len(Pops(l)) + 1].key ELSE None

\* C10: Frontier FIFO: each dequeue returns the oldest enqueued value not
\* yet returned (duplicates are separate entries, the builder's value is
\* the first enqueue), a dequeue on an empty Frontier returns None, and
\* every enqueued value not yet returned is still queued.
C10_FrontierFIFO ==
    /\ \A i \in 1..Len(log) :
          log[i].op = "dequeue" => log[i].key = Oldest(SubSeq(log, 1, i - 1))
    /\ Len(queue) = Len(Pushes(log)) - Len(Pops(log))
    /\ \A i \in 1..Len(queue) : Some(queue[i]) = Pushes(log)[Len(Pops(log)) + i].key

\* The builder's value and an enqueued one came out in order, one value was
\* queued twice, and a dequeue found the Frontier empty.
C10_Witness ==
    /\ Len(log) >= 5
    /\ log[1].op = "value"
    /\ log[2].op = "enqueue" /\ log[2].key # log[1].key
    /\ log[3].op = "dequeue" /\ log[3].key = log[1].key
    /\ log[4].op = "dequeue" /\ log[4].key = log[2].key
    /\ log[5].op = "dequeue" /\ log[5].key = None

(***************************************************************************)
(* Claims on the crawl (Spec, LiveSpec).                                   *)
(***************************************************************************)
\* The calls add(u, None) and visited(u) of RecordAndExtract in the history.
Records(l, u) == SelectSeq(l, LAMBDA c : c = Call("add", Some(u), None))

Range(f) == {f[i] : i \in DOMAIN f}

AllDone == \A w \in 1..workers_n : pc[w] = "done"

\* C1: no duplicate visits: whatever the number of workers and the
\* interleaving, each URL goes through RecordAndExtract (add(url, None),
\* then visited(url)) at most once, also when the Frontier holds it twice.
C1_NoDuplicateVisits ==
    \A u \in Urls :
        /\ Len(Records(log, u)) <= 1
        /\ Len(CallsOf(log, "visited", u)) <= 1

\* A pool of MaxWorkers has finished a crawl in which one URL was dequeued
\* twice and recorded once.
C1_Witness ==
    /\ returned
    /\ workers_n = MaxWorkers
    /\ \E u \in Urls :
          /\ Len(CallsOf(log, "dequeue", u)) >= 2
          /\ Len(Records(log, u)) = 1

\* C2: bounded termination: on a finite site whose Fetcher always returns,
\* every worker reaches Done and execute then returns the Store; no run
\* dequeues and enqueues for ever.
C2_BoundedTermination == <>(returned /\ AllDone /\ queue = << >>)

\* A pool of MaxWorkers has finished the crawl of a site on which /about
\* links to itself and the seed's page links to /about.
C2_Witness ==
    /\ returned
    /\ AllDone
    /\ workers_n = MaxWorkers
    /\ site[about_url].ok
    /\ AbsHref(about_url) \in Range(site[about_url].content)
    /\ has_visited(data, about_url)

\* C3: pool equivalence: on every site, the Store execute returns with any
\* pool size is the Store one worker alone leaves, every urls_found list in
\* the same order.
C3_PoolEquivalence ==
    returned => data = sequential(site, main_frontier.queue, Store_new)

\* A pool of MaxWorkers has crawled the site of the tests, two of its
\* workers having each worked off a page.
C3_Witness ==
    /\ returned
    /\ workers_n = MaxWorkers
    /\ args_url = main_url
    /\ site = test_site
    /\ ~is_initial_crawl[1]
    /\ ~is_initial_crawl[2]
    /\ \A u \in Pages : has_visited(data, u)

\* The Store the end-to-end test expects.
expected ==
    (main_url :> DataStoreEntry(TRUE, << about_url, contact_url, google_url >>))
    @@ (about_url :> DataStoreEntry(TRUE, << >>))
    @@ (contact_url :> DataStoreEntry(TRUE, << >>))

\* C4: end-to-end result: one worker, delay 0, the site of the tests: the
\* returned Store holds exactly the records of the seed (visited, urls_found
\* = [/about, /contact, google] in that order), /about and /contact (visited,
\* nothing found); google has no record and is never fetched.
C4_EndToEnd ==
    (args_url = main_url /\ site = test_site /\ workers_n = 1) =>
        /\ returned => data = expected
        /\ ~exists(data, google_url)
        /\ CallsOf(log, "get", google_url) = << >>

\* The one worker has finished the crawl of the site of the tests.
C4_Witness ==
    /\ args_url = main_url
    /\ site = test_site
    /\ workers_n = 1
    /\ delay_s = None
    /\ returned
    /\ Len(CallsOf(log, "get", contact_url)) = 1

\* The links of page u resolved, in document order.
Resolved(u, links) == [i \in 1..Len(links) |-> process_url(links[i], u)]

\* C9: same-origin scope: every URL enqueued has the seed's host, so no URL
\* of another host is dequeued, fetched or marked visited; and every
\* resolved link of a page, in scope or not, is on the page's urls_found
\* (all of them once the page is worked off, those processed so far before).
C9_SameOriginScope ==
    /\ \A i \in 1..Len(log) :
          (log[i].op \in {"enqueue", "dequeue", "get", "visited"} /\ IsSome(log[i].key))
              => Unwrap(log[i].key).host = original_url_parts.host
    /\ \A i \in 1..Len(queue) : queue[i].host = original_url_parts.host
    /\ \A k \in DOMAIN data : data[k].visited => k.host = original_url_parts.host
    /\ \A k \in DOMAIN data :
          LET busy == {w \in Workers : pc[w] = "links" /\ current_url[w] = Some(k)}
              all == Resolved(k, all_links(client_get(site, k).content))
          IN  IF busy = {}
              THEN data[k].urls_found = all
              ELSE \A w \in busy : data[k].urls_found \o Resolved(k, urls_found[w]) = all

\* A crawl has finished in which a link to google was recorded and a link
\* in scope was enqueued.
C9_Witness ==
    /\ returned
    /\ \E k \in DOMAIN data : google_url \in Range(data[k].urls_found)
    /\ \E i \in 1..Len(log) : log[i].op = "enqueue"
    /\ CallsOf(log, "dequeue", google_url) = << >>

(***************************************************************************)
(* Claims on the seed, on transport errors and on the states of a URL      *)
(* (Spec).                                                                 *)
(***************************************************************************)

\* C11: a malformed seed is fatal before start: when the seed has no scheme
\* and host, execute returns an error and starts no worker: no dequeue, no
\* fetch, no Store mutation.  (Stated as the claim states it; execute never
\* looks at the Result of url_parts and returns Ok(data_store).)
C11_MalformedSeedIsFatal ==
    ~url_parts(args_url).ok =>
        /\ spawned = 0
        /\ log = << >>
        /\ data = Store_new
        /\ ~returned

\* The worker w has just had a transport error for its current URL.
FetchFailed(w) ==
    /\ pc[w] = "fetch"
    /\ pc'[w] # "fetch"
    /\ ~client_get(site, Unwrap(current_url[w])).ok

C12_FailedFetchStep ==
    \A w \in Workers :
        FetchFailed(w) =>
            /\ data' = data
            /\ queue' = queue
            /\ log' = Append(log, Call("get", current_url[w], None))
            /\ pc'[w] = "lock_frontier"
            /\ frontier_lock' = 0
            /\ ~returned'

C12_FailedStaysUnknown ==
    \A i \in 1..Len(log) :
        (log[i].op = "get" /\ ~client_get(site, Unwrap(log[i].key)).ok) =>
            /\ ~exists(data, Unwrap(log[i].key))
            /\ ~has_visited(data, Unwrap(log[i].key))
            /\ \A j \in 1..Len(queue) : queue[j] = Unwrap(log[i].key) =>
                  Len(CallsOf(log, "enqueue", queue[j])) >= 1

\* C12: a transport failure is contained: the iteration whose fetch fails
\* changes neither the Store nor the queue (the URL gets no record, stays
\* unvisited and is not put back), the worker goes back to AcquireWork, not
\* to Done, and execute does not return with it.
C12_TransportFailureContained == []C12_FailedStaysUnknown /\ [][C12_FailedFetchStep]_vars

\* A crawl has returned the Store although the fetch of a page in scope
\* failed, and pages were worked off after the failure.
C12_Witness ==
    /\ returned
    /\ args_url = main_url
    /\ \E i \in 1..Len(log) :
          /\ log[i].op = "get"
          /\ ~client_get(site, Unwrap(log[i].key)).ok
          /\ \E j \in (i + 1)..Len(log) : log[j].op = "visited"

\* unknown (0), discovered (1: a record, not visited), visited (2).
Rank(d, u) == IF has_visited(d, u) THEN 2 ELSE IF exists(d, u) THEN 1 ELSE 0

\* C13: no URL regresses during a crawl: a visited URL stays visited and a
\* URL with a record keeps a record; a URL only goes from unknown to
\* discovered to visited.
C13_NoRegress ==
    [][\A u \in Urls \cup {malformed_url} : Rank(data', u) >= Rank(data, u)]_vars

\* A visited page has been found again as a link (here a page linking to
\* itself) after it was marked visited, and it is still visited.
C13_Witness ==
    /\ has_visited(data, about_url)
    /\ about_url \in Range(data[about_url].urls_found)
    /\ \E i \in 1..Len(log) : \E j \in (i + 1)..Len(log) :
          /\ log[i] = Call("visited", Some(about_url), None)
          /\ log[j] = Call("add", Some(about_url), Some(about_url))

(***************************************************************************)
(* Claims on the Frontier's lock and on the steps of one iteration (Spec,  *)
(* LiveSpec).                                                              *)
(***************************************************************************)
\* The positions of a worker between its dequeue and the end of its iteration.
MidIteration == {"check_visited", "fetch", "record", "links"}

\* The worker v is fetching a page whose links will put a URL on the queue.
FetchWillEnqueue(v) ==
    /\ pc[v] = "fetch"
    /\ client_get(site, Unwrap(current_url[v])).ok
    /\ \E i \in 1..Len(client_get(site, Unwrap(current_url[v])).content) :
          LET l == process_url(client_get(site, Unwrap(current_url[v])).content[i],
                               Unwrap(current_url[v]))
          IN  /\ IsSome(in_scope(l))
              /\ l # Unwrap(current_url[v])
              /\ ~has_visited(data, l)

\* A worker is Done while another one is fetching such a page.
PrematureExit ==
    \E w \in Workers : \E v \in Workers \ {w} : pc[w] = "done" /\ FetchWillEnqueue(v)

\* C14 as stated: premature worker exit is reachable: with two or more
\* workers, a worker dequeues from an empty Frontier and reaches Done while
\* another worker is mid-fetch of a URL whose processing will enqueue more.
C14_PrematureExitReachable ==
    (workers_n >= 2 /\ args_url = main_url /\ site = test_site) => <>PrematureExit

\* C14, amended: premature exit is not reachable: the worker that fetches
\* holds the Frontier's lock, so whenever a worker is Done the queue is
\* empty and no other worker is between its dequeue and the end of its
\* iteration; no worker ends while another one is fetching.
C14_NoPrematureExit ==
    /\ ~PrematureExit
    /\ (\E w \in Workers : pc[w] = "done") =>
          /\ queue = << >>
          /\ \A v \in Workers : pc[v] \notin MidIteration

\* With several workers one has ended on the empty queue while the others
\* are still waiting for the lock, after a page with links was worked off.
C14_Witness ==
    /\ workers_n = MaxWorkers
    /\ pc[1] = "done"
    /\ pc[2] = "lock_frontier"
    /\ pc[3] = "lock_frontier"
    /\ Len(CallsOf(log, "enqueue", about_url)) >= 1
    /\ has_visited(data, about_url)

C15_LockHeld ==
    \A w \in Workers :
        pc[w] \in MidIteration \cup {"dequeue"} => frontier_lock = w

C15_NoInterleaving ==
    \A w \in Workers :
        pc[w] \in MidIteration =>
            /\ (queue' # queue \/ log' # log \/ data' # data) =>
                  (pc'[w] # pc[w] \/ urls_found'[w] # urls_found[w])
            /\ \A v \in Workers \ {w} :
                  pc'[v] = pc[v] \/ (pc[v] = "unspawned" /\ pc'[v] = "lock_frontier")

\* C15: the Frontier's lock is iteration-wide: a worker between taking the
\* lock and the end of its iteration holds it, so at most one worker is
\* there, and while it is, every Frontier and Store operation is its own.
C15_IterationWideLock == []C15_LockHeld /\ [][C15_NoInterleaving]_vars

\* With MaxWorkers workers one has put a link on the queue and is still in
\* its iteration while the others wait for the lock.
C15_Witness ==
    /\ workers_n = MaxWorkers
    /\ pc[2] = "links"
    /\ pc[1] = "lock_frontier"
    /\ pc[3] = "lock_frontier"
    /\ Len(log) >= 1
    /\ log[Len(log)].op = "enqueue"
    /\ queue # << >>

C17_RevisitStep ==
    \A w \in Workers :
        /\ (pc[w] = "dequeue" /\ pc'[w] = "check_visited") =>
              /\ data' = data
              /\ queue = current_url'[w] \o queue'
        /\ (pc[w] = "check_visited" /\ pc'[w] # pc[w]
                /\ has_visited(data, Unwrap(current_url[w]))) =>
              /\ data' = data
              /\ queue' = queue
              /\ log' = Append(log, Call("has_visited", current_url[w], None))
              /\ pc'[w] = "lock_frontier"
              /\ frontier_lock' = 0

\* C17: the revisit guard leaves the state unchanged: the iteration that
\* dequeues a visited URL takes one copy of it off the queue and then, without
\* a fetch, a Store mutation or an enqueue, goes back to AcquireWork.
C17_RevisitGuard == [][C17_RevisitStep]_vars

\* A URL queued twice has been dequeued a second time and dropped.
C17_Witness ==
    \E w \in Workers : \E u \in Urls :
        /\ pc[w] = "lock_frontier"
        /\ Len(log) >= 3
        /\ log[Len(log)] = Call("has_visited", Some(u), None)
        /\ log[Len(log) - 1] = Call("dequeue", Some(u), None)
        /\ Len(CallsOf(log, "visited", u)) = 1
        /\ Len(CallsOf(log, "get", u)) = 1

\* The calls the claim lists for the links of the page cur, in document
\* order; vis is the set of URLs marked visited so far.
RECURSIVE LinkCalls(_, _, _)
LinkCalls(cur, links, vis) ==
    IF links = << >>
    THEN << >>
    ELSE LET l == process_url(Head(links), cur)
             scoped == url_parts(args_url).ok /\ l.host = url_parts(args_url).host
         IN  << Call("add", Some(cur), Some(l)) >>
             \o (IF scoped THEN << Call("has_visited", Some(l), None) >> ELSE << >>)
             \o (IF scoped /\ l \notin vis THEN << Call("enqueue", Some(l), None) >> ELSE << >>)
             \o LinkCalls(cur, Tail(links), vis)

\* The calls of a successful iteration on cur up to the first n links.
IterationCalls(cur, links, n, vis) ==
    << Call("dequeue", Some(cur), None),
       Call("has_visited", Some(cur), None),
       Call("get", Some(cur), None),
       Call("add", Some(cur), None),
       Call("visited", Some(cur), None) >>
    \o LinkCalls(cur, SubSeq(links, 1, n), vis \cup {cur})

\* The place of the last dequeue in the log.
LastDequeue ==
    CHOOSE k \in 1..Len(log) :
        log[k].op = "dequeue" /\ \A j \in (k + 1)..Len(log) : log[j].op # "dequeue"

VisitedBefore(k) == {u \in Urls : \E i \in 1..(k - 1) : log[i] = Call("visited", Some(u), None)}

\* C16: the order of the operations of one successful iteration: dequeue,
\* has_visited(current), fetch, add(current, None), visited(current), then
\* for each link in document order add(current, Some(link)), has_visited(link)
\* only if the link is in scope, enqueue(link) only if that returned false.
\* The log since the worker's dequeue is exactly that sequence, for as many
\* links as the worker has worked off.
C16_IterationOrder ==
    \A w \in Workers :
        pc[w] = "links" =>
            LET cur == Unwrap(current_url[w])
                links == all_links(client_get(site, cur).content)
                n == Len(links) - Len(urls_found[w])
            IN  /\ Len(urls_found[w]) <= Len(links)
                /\ SubSeq(log, LastDequeue, Len(log))
                     = IterationCalls(cur, links, n, VisitedBefore(LastDequeue))

\* The iteration on the page of the tests is complete: two links in scope
\* enqueued and one out of scope only recorded, twelve calls in all.
C16_Witness ==
    /\ args_url = main_url
    /\ site = test_site
    /\ pc[1] = "links"
    /\ urls_found[1] = << >>
    /\ current_url[1] = Some(main_url)
    /\ Len(log) = 12
    /\ log[12] = Call("add", Some(main_url), Some(google_url))
    /\ log[11] = Call("enqueue", Some(contact_url), None)

(***************************************************************************)
(* Claim on is_initial_crawl (FlagSpec).                                   *)
(***************************************************************************)
IsPrefix(a, b) == Len(a) <= Len(b) /\ SubSeq(b, 1, Len(a)) = a

\* C18: is_initial_crawl is dead state: for every Frontier content, Store
\* content and site, the worker started with the flag set and the one
\* started with it cleared make the same sequence of Frontier and Store
\* calls and are Done at the same point, namely at the first dequeue that
\* finds the Frontier empty.
C18_FlagIsDead ==
    ret.op = "run_task" =>
        LET calls(flag) == run_task_calls(site, ret.key, ret.value, flag)
        IN  /\ calls(TRUE) = calls(FALSE)
            /\ IsPrefix(log, calls(~ret.out))
            /\ pc[1] = "done" <=> log = calls(~ret.out)
            /\ (log # << >> /\ LastCall(log) = Call("dequeue", None, None)) => pc[1] = "done"

\* A worker started with the flag cleared has worked off two pages, the
\* second one found through the first, and is Done.
C18_Witness ==
    /\ ret.op = "run_task"
    /\ ret.out = FALSE
    /\ ret.key = << main_url >>
    /\ pc[1] = "done"
    /\ ~is_initial_crawl[1]
    /\ Len(CallsOf(log, "visited", main_url)) = 1
    /\ Len(CallsOf(log, "visited", contact_url)) = 1

(***************************************************************************)
(* Claim on the politeness delay (FrontierSpec).                           *)
(***************************************************************************)
\* The builder was given a delay greater than 0.
DelayGiven == \E i \in 1..Len(log) : log[i].op = "delay_s" /\ Unwrap(log[i].value) > 0

Sleeps(l) == SelectSeq(l, LAMBDA c : c.op = "sleep")

\* C19: the place of the politeness delay: a Frontier built with delay 0 or
\* without a delay has none configured and its dequeue never sleeps; one
\* built with d > 0 sleeps d exactly once right before each pop, also when
\* the pop finds the queue empty; nothing else sleeps, enqueue included.
C19_DelayPlacement ==
    /\ IsSome(delay_s) <=> DelayGiven
    /\ delay_s # Some(0)
    /\ ~IsSome(delay_s) => Sleeps(log) = << >>
    /\ sleeps = Len(Sleeps(log))
    /\ \A i \in 1..Len(log) :
          /\ log[i].op = "dequeue" =>
                (IsSome(delay_s) <=> (i > 1 /\ log[i - 1].op = "sleep"))
          /\ log[i].op = "sleep" =>
                /\ log[i].value = delay_s
                /\ log[i] # Call("sleep", None, Some(0))
                /\ i < Len(log)
                /\ log[i + 1].op = "dequeue"
          /\ log[i].op = "enqueue" => (i = 1 \/ log[i - 1].op # "sleep")

\* A Frontier with a delay has slept before the pop that returned an
\* enqueued value and before the pop that found the queue empty.
C19_Witness ==
    /\ delay_s = Some(2)
    /\ sleeps = 2
    /\ \E j \in 1..Len(log) : \E i \in (j + 1)..Len(log) : \E k \in (i + 1)..Len(log) :
          /\ log[j].op = "enqueue"
          /\ log[i].op = "dequeue" /\ log[i].key = log[j].key
          /\ log[i - 1].op = "sleep"
          /\ log[k].op = "dequeue" /\ log[k].key = None
          /\ log[k - 1].op = "sleep"

(***************************************************************************)
(* Claim on the coordinator (Spec).                                        *)
(***************************************************************************)
Started == {w \in Workers : pc[w] # "unspawned"}

C20_Order ==
    /\ (\A i \in 1..Len(log) : log[i].op # "dequeue") => queue = << args_url >>
    /\ Started = 1..spawned
    /\ spawned <= workers_n
    /\ returned =>
          /\ Started = 1..workers_n
          /\ \A w \in Started : pc[w] = "done"

C20_AfterReturn ==
    returned =>
        /\ returned'
        /\ data' = data
        /\ pc' = pc
        /\ spawned' = spawned

\* C20: the order of the coordinator: the Frontier holds exactly the seed
\* until the first dequeue of any worker, exactly workers_n workers are
\* started and none after the return, and the Store is returned only when
\* every worker is Done, so it is not mutated after it is returned.
C20_CoordinatorOrdering == []C20_Order /\ [][C20_AfterReturn]_vars

\* The run with MaxWorkers workers has returned a Store with records.
C20_Witness ==
    /\ returned
    /\ workers_n = MaxWorkers
    /\ spawned = MaxWorkers
    /\ exists(data, args_url)
    /\ has_visited(data, about_url)
    /\ Len(CallsOf(log, "dequeue", args_url)) = 1

(***************************************************************************)
(* Claims on the end of the crawl and on the records of the Store (Spec).  *)
(***************************************************************************)
\* The fetch of u was tried and the Fetcher returned an error.
FetchFailedFor(u) ==
    \E i \in 1..Len(log) : log[i] = Call("get", Some(u), None) /\ ~client_get(site, u).ok

\* The URLs discovered on visited pages whose host is the seed's.
DiscoveredInScope ==
    {l \in UNION {Range(data[p].urls_found) : p \in {k \in DOMAIN data : data[k].visited}} :
        url_parts(args_url).ok /\ l.host = url_parts(args_url).host}

\* C21: completeness at termination: when all workers are Done the Frontier
\* is empty and every URL in scope found on a visited page is visited, unless
\* its fetch failed; none is left unprocessed.
C21_CrawlComplete ==
    (spawned = workers_n /\ AllDone) =>
        /\ queue = << >>
        /\ \A l \in DiscoveredInScope : has_visited(data, l) \/ FetchFailedFor(l)

\* All MaxWorkers workers are Done after a crawl that found two pages in
\* scope, one fetched and visited, the other one failing.
C21_Witness ==
    /\ spawned = workers_n
    /\ workers_n = MaxWorkers
    /\ AllDone
    /\ DiscoveredInScope = {about_url, contact_url}
    /\ has_visited(data, about_url)
    /\ ~has_visited(data, contact_url)
    /\ FetchFailedFor(contact_url)

\* The page u was fetched and the Fetcher returned its body.
Fetched(u) ==
    \E i \in 1..Len(log) : log[i] = Call("get", Some(u), None) /\ client_get(site, u).ok

\* The URLs found as links, in any record.
Discovered == UNION {Range(data[p].urls_found) : p \in DOMAIN data}

\* C22: the keys of the Store are exactly the fetched pages: whenever no
\* worker holds the Frontier's lock, every record is visited and its key was
\* fetched with success, every page fetched with success has a record, a URL
\* only found as a link has no record, and exists(K) = has_visited(K).
C22_KeysAreFetchedPages ==
    frontier_lock = 0 =>
        /\ \A k \in DOMAIN data : data[k].visited /\ Fetched(k)
        /\ \A u \in Urls \cup {malformed_url} :
              /\ Fetched(u) => exists(data, u)
              /\ (u \in Discovered /\ ~Fetched(u)) => ~exists(data, u)
              /\ exists(data, u) = has_visited(data, u)

\* The crawl of the site of the tests is over: three records, and the link
\* out of scope is in a list without a record of its own.
C22_Witness ==
    /\ frontier_lock = 0
    /\ site = test_site
    /\ DOMAIN data = {main_url, about_url, contact_url}
    /\ google_url \in Discovered
    /\ ~exists(data, google_url)
    /\ AllDone

(***************************************************************************)
(* Claim on the locks (Spec).                                              *)
(***************************************************************************)
\* The worker w waits for a lock another guard holds.
Blocked(w) ==
    \/ pc[w] = "lock_frontier" /\ frontier_lock # 0
    \/ pc[w] \in {"check_visited", "record"} /\ store_lock # 0

Running == {w \in Workers : pc[w] \notin {"unspawned", "done"}}

C23_Locks ==
    /\ store_lock # 0 => frontier_lock = store_lock
    /\ \A w \in Workers :
          pc[w] \in {"unspawned", "lock_frontier", "done"} =>
              frontier_lock # w /\ store_lock # w
    /\ Running # {} =>
          /\ \E w \in Running : ~Blocked(w)
          /\ ENABLED (\E w \in Workers : run_task(w))

C23_ExitPaths ==
    \A w \in Workers :
        (pc[w] \in MidIteration \cup {"dequeue"} /\ pc'[w] \in {"lock_frontier", "done"}) =>
            frontier_lock' = 0 /\ store_lock' = 0

\* C23: deadlock freedom: the Frontier's lock is taken before the Store's,
\* both are free after every way out of an iteration (empty queue, visited
\* URL, failed fetch, normal end), a Done worker holds no lock, and as long
\* as a worker is not Done one of them is not blocked on a lock.
C23_DeadlockFreedom == []C23_Locks /\ [][C23_ExitPaths]_vars

\* After a failed fetch both locks are free and all MaxWorkers workers are
\* about to take the Frontier's lock again.
C23_Witness ==
    /\ workers_n = MaxWorkers
    /\ \A w \in Workers : pc[w] = "lock_frontier"
    /\ frontier_lock = 0
    /\ store_lock = 0
    /\ log # << >>
    /\ LastCall(log).op = "get"
    /\ FetchFailedFor(Unwrap(LastCall(log).key))
    /\ data # Store_new

(***************************************************************************)
(* Claim on links to the page itself and to visited pages (Spec).          *)
(***************************************************************************)
Enqueues(l) == SelectSeq(l, LAMBDA c : c.op = "enqueue")

C24_NoEnqueueAfterVisited ==
    /\ \A i \in 1..Len(log) : \A j \in (i + 1)..Len(log) :
          log[i].op = "visited" => log[j] # Call("enqueue", log[i].key, None)
    /\ Len(Enqueues(log)) <= TotalLinks(site)
    /\ Len(queue) <= 1 + TotalLinks(site)

C24_LinkStep ==
    \A w \in Workers :
        (pc[w] = "links" /\ urls_found[w] # << >> /\ urls_found'[w] # urls_found[w]) =>
            LET cur == Unwrap(current_url[w])
                l == process_url(Head(urls_found[w]), cur)
            IN  (l = cur \/ has_visited(data, l)) =>
                    /\ queue' = queue
                    /\ data'[cur].urls_found = Append(data[cur].urls_found, l)
                    /\ \A c \in Range(SubSeq(log', Len(log) + 1, Len(log'))) :
                          c.op # "enqueue"

\* C24: a link to the page itself or to a visited page is not enqueued
\* again: the current URL is marked visited before its links are worked off,
\* so such a link is appended to the page's list and the queue is left as it
\* is; no enqueue of a URL follows its visited call, and the number of
\* enqueues of a crawl is at most the number of links of the site.
C24_NoReEnqueue == []C24_NoEnqueueAfterVisited /\ [][C24_LinkStep]_vars

\* The crawl of the site with cycles is over: the link back to the seed and
\* the link of /contact to itself are in the lists, two enqueues were made.
C24_Witness ==
    /\ site = cycle_site
    /\ args_url = main_url
    /\ AllDone
    /\ spawned = workers_n
    /\ queue = << >>
    /\ main_url \in Range(data[about_url].urls_found)
    /\ data[contact_url].urls_found = << about_url, contact_url >>
    /\ Len(Enqueues(log)) = 2

=============================================================================
